---- MODULE Spec2Model ----
(***************************************************************************)
(* Model of package tool (tool/function.go): NewFunctionTool, the          *)
(* functionTool methods Name, Description, Declaration, ProcessRequest and *)
(* Run, and the helper resolvedSchema.                                     *)
(*                                                                         *)
(* The jsonschema library (For, Resolve, Validate) and                     *)
(* internal/typeutil.ConvertToWithJSONSchema are collaborators whose code  *)
(* is not part of function.go; they are modelled from their documented     *)
(* contract over a small universe of JSON values.                          *)
(***************************************************************************)
EXTENDS Integers, Sequences, FiniteSets, TLC

(***************************************************************************)
(* Bounds                                                                  *)
(***************************************************************************)
\* Number of functionTool objects NewFunctionTool may allocate.
MaxTools == 2

(***************************************************************************)
(* JSON values and argument bags                                           *)
(***************************************************************************)
Keys == {"a", "b"}

Absent == [t |-> "absent", n |-> 0]
IntV(n) == [t |-> "integer", n |-> n]
StrX == [t |-> "string", n |-> 0]

\* Values a caller may put under a key of an argument bag.
ArgValues == {Absent, IntV(1), StrX}

\* map[string]any over Keys; a key bound to Absent is not in the map.
Bags == [Keys -> ArgValues]
EmptyBag == [k \in Keys |-> Absent]

\* The `any` handed to Run: a map[string]any, or a value of another type.
MapArg(m) == [kind |-> "map", bag |-> m]
NotAMap == [kind |-> "string", bag |-> EmptyBag]
Args == {MapArg(m) : m \in Bags} \cup {NotAMap}

\* A returned map[string]any: nil, or a map.
NilBag == [isNil |-> TRUE, bag |-> EmptyBag]
SomeBag(m) == [isNil |-> FALSE, bag |-> m]

(***************************************************************************)
(* Go types of handlers, and their values                                  *)
(***************************************************************************)
\* "AB"   : struct{ A int `json:"a"`; B int `json:"b"` }
\* "Chan" : struct{ C chan int }, a type jsonschema.For cannot describe and
\*          encoding/json cannot marshal; no key of a bag names a field of it.
GoTypes == {"AB", "Chan"}

TypedAB(x, y) == [ty |-> "AB", a |-> x, b |-> y]
TypedChan == [ty |-> "Chan", a |-> 0, b |-> 0]
ZeroOf(T) == IF T = "AB" THEN TypedAB(0, 0) ELSE TypedChan

\* Handlers: Function[TArgs, TResults].
\*   swap  : func(ctx, AB) AB      returns {a: in.b, b: in.a}
\*   relay : func(ctx, Chan) Chan  returns its input
Handlers == {"swap", "relay"}
TArgs(h) == IF h = "relay" THEN "Chan" ELSE "AB"
TResults(h) == IF h = "relay" THEN "Chan" ELSE "AB"

\* The handler bodies (user code, pure functions of their input).
ApplyHandler(h, in) ==
    IF h = "swap" THEN TypedAB(in.b, in.a) ELSE in

(***************************************************************************)
(* Schemas                                                                 *)
(***************************************************************************)
\* *jsonschema.Schema values a config may carry: nil, or a document.
NilSchema == [isNil |-> TRUE, wellFormed |-> TRUE,
              props |-> [k \in Keys |-> "integer"], required |-> {}]
\* {"type":"object","properties":{"a":{"type":"string"},"b":{"type":"integer"}}}
StrSchema == [isNil |-> FALSE, wellFormed |-> TRUE,
              props |-> [k \in Keys |-> IF k = "a" THEN "string" ELSE "integer"],
              required |-> {}]
\* A document Resolve rejects (for example an unresolvable $ref).
Malformed == [isNil |-> FALSE, wellFormed |-> FALSE,
              props |-> [k \in Keys |-> "integer"], required |-> {}]
\* What jsonschema.For[AB] infers.
ABSchema == [isNil |-> FALSE, wellFormed |-> TRUE,
             props |-> [k \in Keys |-> "integer"], required |-> Keys]

Overrides == {NilSchema, StrSchema, Malformed}

\* *jsonschema.Resolved: nil, or the resolved document.
NilResolved == [isNil |-> TRUE, props |-> [k \in Keys |-> "integer"], required |-> {}]
ResolvedOf(s) == [isNil |-> FALSE, props |-> s.props, required |-> s.required]

\* (*Schema).Resolve(nil)
Resolve(s) ==
    IF s.wellFormed THEN [schema |-> ResolvedOf(s), err |-> "none"]
    ELSE [schema |-> NilResolved, err |-> "resolve"]

\* jsonschema.For[T](nil)
For(T) ==
    IF T = "AB" THEN [schema |-> ABSchema, err |-> "none"]
    ELSE [schema |-> NilSchema, err |-> "unsupported type"]

\* (*Resolved).Validate(m)
Validate(rs, m) ==
    /\ \A k \in rs.required : m[k] # Absent
    /\ \A k \in Keys : m[k] # Absent => m[k].t = rs.props[k]

\* (*Resolved).Schema(): the raw document of a resolved schema.
SchemaDoc(rs) == [props |-> rs.props, required |-> rs.required]

(***************************************************************************)
(* typeutil.ConvertToWithJSONSchema[From, To](v, resolvedSchema)           *)
(* Marshals v to JSON, validates the JSON object against the schema when   *)
(* one is given, and unmarshals it into To. On failure it returns the zero *)
(* value of To and the error.                                              *)
(***************************************************************************)
\* json.Unmarshal of the object m into a value of Go type T.
Unmarshal(m, T) ==
    IF T = "AB"
    THEN IF \E k \in Keys : m[k] # Absent /\ m[k].t # "integer"
         THEN [val |-> ZeroOf(T), err |-> "conversion"]
         ELSE [val |-> TypedAB(IF m["a"] = Absent THEN 0 ELSE m["a"].n,
                               IF m["b"] = Absent THEN 0 ELSE m["b"].n),
               err |-> "none"]
    ELSE [val |-> ZeroOf(T), err |-> "none"]   \* no key of m names a field

\* json.Marshal of a typed value, read back as a JSON object.
Marshal(v) ==
    IF v.ty = "AB"
    THEN [val |-> [k \in Keys |-> IF k = "a" THEN IntV(v.a) ELSE IntV(v.b)],
          err |-> "none"]
    ELSE [val |-> EmptyBag, err |-> "conversion"]   \* unsupported type: chan

\* ConvertToWithJSONSchema[map[string]any, TArgs]
ConvertIn(m, rs, T) ==
    IF ~rs.isNil /\ ~Validate(rs, m)
    THEN [val |-> ZeroOf(T), err |-> "conversion"]
    ELSE Unmarshal(m, T)

\* ConvertToWithJSONSchema[TResults, map[string]any]
ConvertOut(v, rs) ==
    LET j == Marshal(v) IN
    IF j.err # "none" THEN [val |-> NilBag, err |-> j.err]
    ELSE IF ~rs.isNil /\ ~Validate(rs, j.val)
         THEN [val |-> NilBag, err |-> "conversion"]
         ELSE [val |-> SomeBag(j.val), err |-> "none"]

(***************************************************************************)
(* NewFunctionTool and the functionTool accessors                          *)
(***************************************************************************)
Names == {"", "add"}
Descriptions == {"swaps a and b"}

\* FunctionToolConfig
Configs == [Name : Names, Description : Descriptions,
            InputSchema : Overrides, OutputSchema : Overrides]

\* resolvedSchema[T](override)
resolvedSchema(T, override) ==
    IF ~override.isNil THEN Resolve(override)
    ELSE LET s == For(T) IN
         IF s.err # "none" THEN [schema |-> NilResolved, err |-> s.err]
         ELSE Resolve(s.schema)

\* The nil Tool returned with an error.
NilTool == [isNil |-> TRUE,
            cfg |-> [Name |-> "", Description |-> "swaps a and b",
                     InputSchema |-> NilSchema, OutputSchema |-> NilSchema],
            inputSchema |-> NilResolved, outputSchema |-> NilResolved,
            handler |-> "swap"]

\* Variant: the error of the output schema's resolution is dropped.
NewFunctionToolIgnoresOutput(cfg, handler) ==
    LET i == resolvedSchema(TArgs(handler), cfg.InputSchema)
        o == resolvedSchema(TResults(handler), cfg.OutputSchema)
    IN  IF i.err # "none"
        THEN [tool |-> NilTool, err |-> "failed to infer input schema"]
        ELSE [tool |-> [isNil |-> FALSE, cfg |-> cfg,
                        inputSchema |-> i.schema, outputSchema |-> o.schema,
                        handler |-> handler],
              err |-> "none"]

NewFunctionTool(cfg, handler) ==
    LET i == resolvedSchema(TArgs(handler), cfg.InputSchema)
        o == resolvedSchema(TResults(handler), cfg.OutputSchema)
    IN  IF i.err # "none"
        THEN [tool |-> NilTool, err |-> "failed to infer input schema"]
        ELSE IF o.err # "none"
        THEN [tool |-> NilTool, err |-> "failed to infer output schema"]
        ELSE [tool |-> [isNil |-> FALSE, cfg |-> cfg,
                        inputSchema |-> i.schema, outputSchema |-> o.schema,
                        handler |-> handler],
              err |-> "none"]

Description(f) == f.cfg.Description

Name(f) == f.cfg.Name

\* *genai.FunctionDeclaration built by Declaration(); never nil.
Declaration(f) ==
    [isNil |-> FALSE,
     Name |-> Name(f),
     Description |-> Description(f),
     ParametersJsonSchema |->
        IF ~f.inputSchema.isNil THEN SchemaDoc(f.inputSchema) ELSE SchemaDoc(NilResolved),
     ResponseJsonSchema |->
        IF ~f.outputSchema.isNil THEN SchemaDoc(f.outputSchema) ELSE SchemaDoc(NilResolved)]

(***************************************************************************)
(* Run                                                                     *)
(***************************************************************************)
Ret(result, err, trace, calls) ==
    [result |-> result, err |-> err, trace |-> trace, handlerCalls |-> calls]

\* Variant: the handler is called before the input conversion's error is looked at.
RunHandlerFirst(f, args) ==
    IF args.kind # "map"
    THEN Ret(NilBag, "unexpected args type", <<"typecheck">>, 0)
    ELSE LET input == ConvertIn(args.bag, f.inputSchema, TArgs(f.handler))
             output == ApplyHandler(f.handler, input.val)
         IN  IF input.err # "none"
             THEN Ret(NilBag, input.err, <<"typecheck", "convertIn", "handler">>, 1)
             ELSE LET resp == ConvertOut(output, f.outputSchema)
                  IN  Ret(resp.val, resp.err,
                          <<"typecheck", "convertIn", "handler", "convertOut">>, 1)

\* Variant: the output is marshalled and returned without the output schema.
RunNoOutputSchema(f, args) ==
    IF args.kind # "map"
    THEN Ret(NilBag, "unexpected args type", <<"typecheck">>, 0)
    ELSE LET input == ConvertIn(args.bag, f.inputSchema, TArgs(f.handler)) IN
         IF input.err # "none"
         THEN Ret(NilBag, input.err, <<"typecheck", "convertIn">>, 0)
         ELSE LET output == ApplyHandler(f.handler, input.val)
                  resp == ConvertOut(output, NilResolved)
              IN  Ret(resp.val, resp.err,
                      <<"typecheck", "convertIn", "handler", "convertOut">>, 1)

\* Variant: the type assertion's ok is ignored; a non-map is used as the empty map.
RunNoTypeCheck(f, args) ==
    LET input == ConvertIn(args.bag, f.inputSchema, TArgs(f.handler)) IN
    IF input.err # "none"
    THEN Ret(NilBag, input.err, <<"typecheck", "convertIn">>, 0)
    ELSE LET output == ApplyHandler(f.handler, input.val)
             resp == ConvertOut(output, f.outputSchema)
         IN  Ret(resp.val, resp.err,
                 <<"typecheck", "convertIn", "handler", "convertOut">>, 1)

\* Variant: a failed input conversion returns the argument map with the error.
RunReturnsArgs(f, args) ==
    IF args.kind # "map"
    THEN Ret(NilBag, "unexpected args type", <<"typecheck">>, 0)
    ELSE LET input == ConvertIn(args.bag, f.inputSchema, TArgs(f.handler)) IN
         IF input.err # "none"
         THEN Ret(SomeBag(args.bag), input.err, <<"typecheck", "convertIn">>, 0)
         ELSE LET output == ApplyHandler(f.handler, input.val)
                  resp == ConvertOut(output, f.outputSchema)
              IN  Ret(resp.val, resp.err,
                      <<"typecheck", "convertIn", "handler", "convertOut">>, 1)

\* Run(ctx, args): the returned (any, error), with the stages the call went
\* through and the number of times it called the handler.
Run(f, args) ==
    IF args.kind # "map"
    THEN Ret(NilBag, "unexpected args type", <<"typecheck">>, 0)
    ELSE LET input == ConvertIn(args.bag, f.inputSchema, TArgs(f.handler)) IN
         IF input.err # "none"
         THEN Ret(NilBag, input.err, <<"typecheck", "convertIn">>, 0)
         ELSE LET output == ApplyHandler(f.handler, input.val)
                  resp == ConvertOut(output, f.outputSchema)
              IN  Ret(resp.val, resp.err,
                      <<"typecheck", "convertIn", "handler", "convertOut">>, 1)

(***************************************************************************)
(* ProcessRequest                                                          *)
(***************************************************************************)
\* req.Tools: nil, or a map from name to tool (0: the key is not in the map).
NilTools == [isNil |-> TRUE, m |-> [n \in Names |-> 0]]
EmptyTools == [isNil |-> FALSE, m |-> [n \in Names |-> 0]]
\* req.GenerateConfig: nil, or a config with its Tools list.
NilConfig == [isNil |-> TRUE, Tools |-> <<>>]
EmptyConfig == [isNil |-> FALSE, Tools |-> <<>>]

\* if req.Tools == nil { req.Tools = make(map[string]any) }
MakeTools(rt) == IF rt.isNil THEN EmptyTools ELSE rt

\* Variant: the lookup never finds the name.
HasToolNever(rt, name) == FALSE

\* _, ok := req.Tools[name]
HasTool(rt, name) == rt.m[name] # 0

\* req.Tools[name] = f
PutTool(rt, name, i) == [rt EXCEPT !.m[name] = i]

\* if req.GenerateConfig == nil { req.GenerateConfig = &genai.GenerateContentConfig{} }
MakeConfig(rc) == IF rc.isNil THEN EmptyConfig ELSE rc

\* Variant: the new entry is put in front of the list.
AppendDeclFront(list, decl) == <<[FunctionDeclarations |-> <<decl>>]>> \o list

\* append(req.GenerateConfig.Tools, &genai.Tool{FunctionDeclarations: {decl}})
AppendDecl(list, decl) == Append(list, [FunctionDeclarations |-> <<decl>>])

\* Variant: the tool is stored before the name is looked up.
ProcessRequestStoresFirst(i, f, rt, rc) ==
    LET t1 == MakeTools(rt)
        name == Name(f)
        t2 == PutTool(t1, name, i)
    IN  IF HasTool(t1, name)
        THEN [Tools |-> t2, GenerateConfig |-> rc, err |-> "duplicate tool"]
        ELSE LET c1 == MakeConfig(rc)
                 decl == Declaration(f)
                 c2 == IF ~decl.isNil
                       THEN [c1 EXCEPT !.Tools = AppendDecl(c1.Tools, decl)]
                       ELSE c1
             IN  [Tools |-> t2, GenerateConfig |-> c2, err |-> "none"]

\* ProcessRequest(ctx, req) by the tool at address i, whose fields are f, on a
\* request with Tools rt and GenerateConfig rc: the request after the call
\* and the returned error.
ProcessRequest(i, f, rt, rc) ==
    LET t1 == MakeTools(rt)
        name == Name(f)
    IN  IF HasTool(t1, name)
        THEN [Tools |-> t1, GenerateConfig |-> rc, err |-> "duplicate tool"]
        ELSE LET t2 == PutTool(t1, name, i)
                 c1 == MakeConfig(rc)
                 decl == Declaration(f)
                 c2 == IF ~decl.isNil
                       THEN [c1 EXCEPT !.Tools = AppendDecl(c1.Tools, decl)]
                       ELSE c1
             IN  [Tools |-> t2, GenerateConfig |-> c2, err |-> "none"]

(***************************************************************************)
(* State                                                                   *)
(***************************************************************************)
VARIABLES
    tools,       \* the functionTool objects built so far; the index is the address
    reqTools,    \* req.Tools of the llm.Request
    reqConfig,   \* req.GenerateConfig of the llm.Request
    registered,  \* names of the ProcessRequest calls on req that returned nil, in order
    lastCall,    \* the most recent call of the single caller and what it returned
    thr,         \* the goroutines calling into the package, each with its locals
    discipline   \* how callers share req: "single-writer" or "none"

vars == <<tools, reqTools, reqConfig, registered, lastCall, thr, discipline>>

Threads == {"t1", "t2"}

NoCfg == [Name |-> "", Description |-> "swaps a and b",
          InputSchema |-> NilSchema, OutputSchema |-> NilSchema]
NoDecl == [isNil |-> TRUE, Name |-> "", Description |-> "",
           ParametersJsonSchema |-> SchemaDoc(NilResolved),
           ResponseJsonSchema |-> SchemaDoc(NilResolved)]
NoCall == [op |-> "none", cfg |-> NoCfg, handler |-> "swap", tool |-> 0,
           args |-> NotAMap, result |-> NilBag, err |-> "none", trace |-> <<>>,
           handlerCalls |-> 0, str |-> "", decl |-> NoDecl]

ToolIds == 1..Len(tools)

\* A freshly made llm.Request: each of the two fields nil or empty.
FreshRequest ==
    /\ reqTools' \in {NilTools, EmptyTools}
    /\ reqConfig' \in {NilConfig, EmptyConfig}
    /\ registered' = <<>>

\* A goroutine: the call it makes, where it is in it, and its locals.
IdleThread == [op |-> "none", pc |-> "idle", tool |-> 0, args |-> NotAMap,
               old |-> <<>>, input |-> ZeroOf("AB"), output |-> ZeroOf("AB"),
               result |-> NilBag, err |-> "none", trace |-> <<>>,
               handlerCalls |-> 0, str |-> "", decl |-> NoDecl]

\* The zero llm.Request, no tool built yet, one caller.
Init ==
    /\ tools = <<>>
    /\ reqTools = NilTools
    /\ reqConfig = NilConfig
    /\ registered = <<>>
    /\ lastCall = NoCall
    /\ thr = [t \in Threads |-> IdleThread]
    /\ discipline = "single-writer"

(***************************************************************************)
(* Calls made one at a time by a single caller                             *)
(***************************************************************************)
CallNewFunctionTool ==
    /\ Len(tools) < MaxTools
    /\ \E cfg \in Configs, h \in Handlers :
          LET r == NewFunctionTool(cfg, h) IN
          /\ tools' = IF r.err = "none" THEN Append(tools, r.tool) ELSE tools
          /\ lastCall' = [NoCall EXCEPT !.op = "NewFunctionTool", !.cfg = cfg,
                             !.handler = h, !.err = r.err,
                             !.tool = IF r.tool.isNil THEN 0 ELSE Len(tools) + 1]
    /\ UNCHANGED <<reqTools, reqConfig, registered, thr, discipline>>

CallProcessRequest ==
    \E i \in ToolIds :
        LET r == ProcessRequest(i, tools[i], reqTools, reqConfig) IN
        /\ reqTools' = r.Tools
        /\ reqConfig' = r.GenerateConfig
        /\ registered' = IF r.err = "none" THEN Append(registered, Name(tools[i]))
                          ELSE registered
        /\ lastCall' = [NoCall EXCEPT !.op = "ProcessRequest", !.tool = i, !.err = r.err]
        /\ UNCHANGED <<tools, thr, discipline>>

CallRun ==
    \E i \in ToolIds, args \in Args :
        LET r == Run(tools[i], args) IN
        /\ lastCall' = [NoCall EXCEPT !.op = "Run", !.tool = i, !.args = args,
                            !.result = r.result, !.err = r.err, !.trace = r.trace,
                            !.handlerCalls = r.handlerCalls]
        /\ UNCHANGED <<tools, reqTools, reqConfig, registered, thr, discipline>>

CallName ==
    \E i \in ToolIds :
        /\ lastCall' = [NoCall EXCEPT !.op = "Name", !.tool = i, !.str = Name(tools[i])]
        /\ UNCHANGED <<tools, reqTools, reqConfig, registered, thr, discipline>>

CallDescription ==
    \E i \in ToolIds :
        /\ lastCall' = [NoCall EXCEPT !.op = "Description", !.tool = i,
                            !.str = Description(tools[i])]
        /\ UNCHANGED <<tools, reqTools, reqConfig, registered, thr, discipline>>

CallDeclaration ==
    \E i \in ToolIds :
        /\ lastCall' = [NoCall EXCEPT !.op = "Declaration", !.tool = i,
                            !.decl = Declaration(tools[i])]
        /\ UNCHANGED <<tools, reqTools, reqConfig, registered, thr, discipline>>

\* The pipeline discards the request and makes one for the next model turn.
NewRequest ==
    /\ FreshRequest
    /\ lastCall' = [NoCall EXCEPT !.op = "NewRequest"]
    /\ UNCHANGED <<tools, thr, discipline>>

\* Setup and registration: tools are built and bound to requests.
Next ==
    \/ CallNewFunctionTool
    \/ CallProcessRequest
    \/ NewRequest

Spec == Init /\ [][Next]_vars

\* Setup and invocation: tools are built and run.
RunNext ==
    \/ CallNewFunctionTool
    \/ CallRun
    \/ CallName
    \/ CallDescription
    \/ CallDeclaration

RunSpec == Init /\ [][RunNext]_vars

(***************************************************************************)
(* Goroutines: the same methods, one statement at a time                   *)
(***************************************************************************)
\* Tools the goroutines share: handler swap, each schema inferred or given.
SharedConfigs == {c \in Configs : c.InputSchema # Malformed /\ c.OutputSchema # Malformed}
SharedTools == {NewFunctionTool(c, "swap").tool : c \in SharedConfigs}

\* Arguments the goroutines pass to Run.
SharedArgs == {NotAMap,
               MapArg([k \in Keys |-> IntV(1)]),
               MapArg([k \in Keys |-> IF k = "a" THEN StrX ELSE Absent])}

ConcInit ==
    /\ tools \in {<<x, y>> : x \in SharedTools, y \in SharedTools}
    /\ reqTools = NilTools
    /\ reqConfig = NilConfig
    /\ registered = <<>>
    /\ lastCall = NoCall
    /\ thr = [t \in Threads |-> IdleThread]
    /\ discipline \in {"single-writer", "none"}

InProcessRequest(t) ==
    thr[t].op = "ProcessRequest" /\ thr[t].pc \notin {"done", "crashed"}

Goto(t, pc) == [thr EXCEPT ![t].pc = pc]

\* A goroutine calls ProcessRequest(ctx, req); under the single-writer
\* discipline the callers let one registration into req run at a time.
StartProcessRequest(t) ==
    /\ thr[t].pc = "idle"
    /\ discipline = "single-writer" => \A u \in Threads \ {t} : ~InProcessRequest(u)
    /\ \E i \in ToolIds :
          thr' = [thr EXCEPT ![t].op = "ProcessRequest", ![t].tool = i,
                             ![t].pc = "nilcheck"]
    /\ UNCHANGED <<tools, reqTools, reqConfig, registered, lastCall, discipline>>

\* if req.Tools == nil
PRNilCheck(t) ==
    /\ thr[t].op = "ProcessRequest" /\ thr[t].pc = "nilcheck"
    /\ thr' = Goto(t, IF reqTools.isNil THEN "make" ELSE "lookup")
    /\ UNCHANGED <<tools, reqTools, reqConfig, registered, lastCall, discipline>>

\* req.Tools = make(map[string]any)
PRMake(t) ==
    /\ thr[t].op = "ProcessRequest" /\ thr[t].pc = "make"
    /\ reqTools' = EmptyTools
    /\ thr' = Goto(t, "lookup")
    /\ UNCHANGED <<tools, reqConfig, registered, lastCall, discipline>>

\* name := f.Name(); if _, ok := req.Tools[name]; ok { return duplicate tool }
PRLookup(t) ==
    /\ thr[t].op = "ProcessRequest" /\ thr[t].pc = "lookup"
    /\ thr' = IF HasTool(reqTools, Name(tools[thr[t].tool]))
              THEN [thr EXCEPT ![t].pc = "done", ![t].err = "duplicate tool"]
              ELSE Goto(t, "insert")
    /\ UNCHANGED <<tools, reqTools, reqConfig, registered, lastCall, discipline>>

\* req.Tools[name] = f
PRInsert(t) ==
    /\ thr[t].op = "ProcessRequest" /\ thr[t].pc = "insert"
    /\ reqTools' = PutTool(reqTools, Name(tools[thr[t].tool]), thr[t].tool)
    /\ thr' = Goto(t, "cfgcheck")
    /\ UNCHANGED <<tools, reqConfig, registered, lastCall, discipline>>

\* if req.GenerateConfig == nil
PRConfigCheck(t) ==
    /\ thr[t].op = "ProcessRequest" /\ thr[t].pc = "cfgcheck"
    /\ thr' = Goto(t, IF reqConfig.isNil THEN "cfgmake" ELSE "declare")
    /\ UNCHANGED <<tools, reqTools, reqConfig, registered, lastCall, discipline>>

\* req.GenerateConfig = &genai.GenerateContentConfig{}
PRConfigMake(t) ==
    /\ thr[t].op = "ProcessRequest" /\ thr[t].pc = "cfgmake"
    /\ reqConfig' = EmptyConfig
    /\ thr' = Goto(t, "declare")
    /\ UNCHANGED <<tools, reqTools, registered, lastCall, discipline>>

\* decl := f.Declaration(); the operand req.GenerateConfig.Tools of append is read
PRDeclare(t) ==
    /\ thr[t].op = "ProcessRequest" /\ thr[t].pc = "declare"
    /\ LET decl == Declaration(tools[thr[t].tool]) IN
       thr' = IF decl.isNil
              THEN [thr EXCEPT ![t].pc = "done", ![t].err = "none"]
              ELSE [thr EXCEPT ![t].pc = "append", ![t].decl = decl,
                               ![t].old = reqConfig.Tools]
    /\ registered' = IF Declaration(tools[thr[t].tool]).isNil
                      THEN Append(registered, Name(tools[thr[t].tool]))
                      ELSE registered
    /\ UNCHANGED <<tools, reqTools, reqConfig, lastCall, discipline>>

\* req.GenerateConfig.Tools = append(...); return nil
PRAppend(t) ==
    /\ thr[t].op = "ProcessRequest" /\ thr[t].pc = "append"
    /\ reqConfig' = [reqConfig EXCEPT !.Tools = AppendDecl(thr[t].old, thr[t].decl)]
    /\ registered' = Append(registered, Name(tools[thr[t].tool]))
    /\ thr' = [thr EXCEPT ![t].pc = "done", ![t].err = "none"]
    /\ UNCHANGED <<tools, reqTools, lastCall, discipline>>

\* The pcs at which a goroutine is about to write, or to read, the map req.Tools.
MapWriter(t) == thr[t].op = "ProcessRequest" /\ thr[t].pc \in {"make", "insert"}
MapReader(t) == thr[t].op = "ProcessRequest" /\ thr[t].pc \in {"nilcheck", "lookup"}

\* The Go runtime may detect unsynchronized access to a map that is being
\* written and end the process ("fatal error: concurrent map writes").
FatalConcurrentMapAccess ==
    /\ \E t, u \in Threads : t # u /\ MapWriter(t) /\ (MapWriter(u) \/ MapReader(u))
    /\ thr' = [t \in Threads |-> [thr[t] EXCEPT !.pc = "crashed"]]
    /\ UNCHANGED <<tools, reqTools, reqConfig, registered, lastCall, discipline>>

\* A goroutine calls Run(ctx, args).
StartRun(t) ==
    /\ thr[t].pc = "idle"
    /\ \E i \in ToolIds, args \in SharedArgs :
          thr' = [thr EXCEPT ![t].op = "Run", ![t].tool = i, ![t].args = args,
                             ![t].pc = "typecheck"]
    /\ UNCHANGED <<tools, reqTools, reqConfig, registered, lastCall, discipline>>

\* m, ok := args.(map[string]any); if !ok { return nil, unexpected args type }
RunTypeCheck(t) ==
    /\ thr[t].op = "Run" /\ thr[t].pc = "typecheck"
    /\ thr' = IF thr[t].args.kind # "map"
              THEN [thr EXCEPT ![t].pc = "done", ![t].result = NilBag,
                               ![t].err = "unexpected args type",
                               ![t].trace = <<"typecheck">>]
              ELSE [thr EXCEPT ![t].pc = "convertIn", ![t].trace = <<"typecheck">>]
    /\ UNCHANGED <<tools, reqTools, reqConfig, registered, lastCall, discipline>>

\* input, err := ConvertToWithJSONSchema(m, f.inputSchema); if err != nil { return nil, err }
RunConvertIn(t) ==
    /\ thr[t].op = "Run" /\ thr[t].pc = "convertIn"
    /\ LET f == tools[thr[t].tool]
           in == ConvertIn(thr[t].args.bag, f.inputSchema, TArgs(f.handler))
       IN  thr' = IF in.err # "none"
                  THEN [thr EXCEPT ![t].pc = "done", ![t].result = NilBag,
                                   ![t].err = in.err,
                                   ![t].trace = Append(thr[t].trace, "convertIn")]
                  ELSE [thr EXCEPT ![t].pc = "handler", ![t].input = in.val,
                                   ![t].trace = Append(thr[t].trace, "convertIn")]
    /\ UNCHANGED <<tools, reqTools, reqConfig, registered, lastCall, discipline>>

\* Variant: the call leaves a mark in the tool's config.
RunHandlerMarksTool(t) ==
    /\ thr[t].op = "Run" /\ thr[t].pc = "handler"
    /\ thr' = [thr EXCEPT ![t].pc = "convertOut",
                          ![t].output = ApplyHandler(tools[thr[t].tool].handler, thr[t].input),
                          ![t].handlerCalls = thr[t].handlerCalls + 1,
                          ![t].trace = Append(thr[t].trace, "handler")]
    /\ tools' = [tools EXCEPT ![thr[t].tool].cfg.Name = ""]
    /\ UNCHANGED <<reqTools, reqConfig, registered, lastCall, discipline>>

\* output := f.handler(ctx, input)
RunHandler(t) ==
    /\ thr[t].op = "Run" /\ thr[t].pc = "handler"
    /\ thr' = [thr EXCEPT ![t].pc = "convertOut",
                          ![t].output = ApplyHandler(tools[thr[t].tool].handler, thr[t].input),
                          ![t].handlerCalls = thr[t].handlerCalls + 1,
                          ![t].trace = Append(thr[t].trace, "handler")]
    /\ UNCHANGED <<tools, reqTools, reqConfig, registered, lastCall, discipline>>

\* resp, err := ConvertToWithJSONSchema(output, f.outputSchema); return resp, err
RunConvertOut(t) ==
    /\ thr[t].op = "Run" /\ thr[t].pc = "convertOut"
    /\ LET resp == ConvertOut(thr[t].output, tools[thr[t].tool].outputSchema) IN
       thr' = [thr EXCEPT ![t].pc = "done", ![t].result = resp.val, ![t].err = resp.err,
                          ![t].trace = Append(thr[t].trace, "convertOut")]
    /\ UNCHANGED <<tools, reqTools, reqConfig, registered, lastCall, discipline>>

\* A goroutine calls Name(), Description() or Declaration().
GoName(t) ==
    /\ thr[t].pc = "idle"
    /\ \E i \in ToolIds :
          thr' = [thr EXCEPT ![t].op = "Name", ![t].tool = i, ![t].pc = "done",
                             ![t].str = Name(tools[i])]
    /\ UNCHANGED <<tools, reqTools, reqConfig, registered, lastCall, discipline>>

GoDescription(t) ==
    /\ thr[t].pc = "idle"
    /\ \E i \in ToolIds :
          thr' = [thr EXCEPT ![t].op = "Description", ![t].tool = i, ![t].pc = "done",
                             ![t].str = Description(tools[i])]
    /\ UNCHANGED <<tools, reqTools, reqConfig, registered, lastCall, discipline>>

GoDeclaration(t) ==
    /\ thr[t].pc = "idle"
    /\ \E i \in ToolIds :
          thr' = [thr EXCEPT ![t].op = "Declaration", ![t].tool = i, ![t].pc = "done",
                             ![t].decl = Declaration(tools[i])]
    /\ UNCHANGED <<tools, reqTools, reqConfig, registered, lastCall, discipline>>

ConcNext ==
    \/ \E t \in Threads : StartProcessRequest(t)
    \/ \E t \in Threads : PRNilCheck(t)
    \/ \E t \in Threads : PRMake(t)
    \/ \E t \in Threads : PRLookup(t)
    \/ \E t \in Threads : PRInsert(t)
    \/ \E t \in Threads : PRConfigCheck(t)
    \/ \E t \in Threads : PRConfigMake(t)
    \/ \E t \in Threads : PRDeclare(t)
    \/ \E t \in Threads : PRAppend(t)
    \/ FatalConcurrentMapAccess
    \/ \E t \in Threads : StartRun(t)
    \/ \E t \in Threads : RunTypeCheck(t)
    \/ \E t \in Threads : RunConvertIn(t)
    \/ \E t \in Threads : RunHandler(t)
    \/ \E t \in Threads : RunConvertOut(t)
    \/ \E t \in Threads : GoName(t)
    \/ \E t \in Threads : GoDescription(t)
    \/ \E t \in Threads : GoDeclaration(t)

ConcSpec == ConcInit /\ [][ConcNext]_vars

(***************************************************************************)
(* Properties                                                              *)
(***************************************************************************)
\* Number of tools in req.Tools.
ToolCount == Cardinality({n \in Names : reqTools.m[n] # 0})

\* Names of the declarations of req.GenerateConfig.Tools, entry by entry.
DeclNames ==
    [k \in 1..Len(reqConfig.Tools) |->
        [j \in 1..Len(reqConfig.Tools[k].FunctionDeclarations) |->
            reqConfig.Tools[k].FunctionDeclarations[j].Name]]

\* C1: a ProcessRequest call by a tool whose name is already a key of
\* req.Tools returns the duplicate-tool error and changes nothing of the
\* request: req.Tools keeps its keys and the tools under them, and
\* req.GenerateConfig keeps its declaration list.
C1_DuplicateLeavesRequest ==
    [][\A i \in ToolIds :
          (/\ lastCall'.op = "ProcessRequest"
           /\ lastCall'.tool = i
           /\ reqTools.m[Name(tools[i])] # 0)
          => /\ lastCall'.err = "duplicate tool"
             /\ reqTools' = reqTools
             /\ reqConfig' = reqConfig
             /\ registered' = registered]_vars

\* C1 witness: a second tool object of an already registered name was refused.
C1_Witness ==
    /\ lastCall.op = "ProcessRequest"
    /\ lastCall.err = "duplicate tool"
    /\ reqTools.m[Name(tools[lastCall.tool])] \notin {0, lastCall.tool}
    /\ ToolCount = 1
    /\ Len(reqConfig.Tools) = 1

\* C6: the declaration list of the request is, in order, one entry with one
\* declaration for each successful ProcessRequest call, named as the tool
\* of that call; its length is the number of tools of the request and no
\* name is declared twice.
C6_DeclarationsMirrorRegistrations ==
    /\ Len(reqConfig.Tools) = Len(registered)
    /\ \A k \in 1..Len(reqConfig.Tools) : DeclNames[k] = <<registered[k]>>
    /\ Len(reqConfig.Tools) = ToolCount
    /\ \A j, k \in 1..Len(registered) : registered[j] = registered[k] => j = k
    /\ \A n \in Names : (reqTools.m[n] # 0) <=> (\E k \in 1..Len(registered) : registered[k] = n)

\* C6 witness: two tools registered, then a registration refused.
C6_Witness ==
    /\ Len(registered) = 2
    /\ registered[1] = "add"
    /\ lastCall.op = "ProcessRequest"
    /\ lastCall.err = "duplicate tool"

\* C7: NewFunctionTool returns a tool exactly when both schemas resolve;
\* otherwise it returns nil and an error naming the side that failed (the
\* input side when both fail). Every tool that exists, and so every tool a
\* request can hold, has both schemas resolved.
C7_ToolIffBothSchemasResolve ==
    /\ lastCall.op = "NewFunctionTool" =>
          LET inOK == resolvedSchema(TArgs(lastCall.handler), lastCall.cfg.InputSchema).err = "none"
              outOK == resolvedSchema(TResults(lastCall.handler), lastCall.cfg.OutputSchema).err = "none"
          IN  /\ (lastCall.tool # 0) <=> (inOK /\ outOK)
              /\ (lastCall.err = "none") <=> (lastCall.tool # 0)
              /\ ~inOK => lastCall.err = "failed to infer input schema"
              /\ (inOK /\ ~outOK) => lastCall.err = "failed to infer output schema"
              /\ lastCall.tool # 0 =>
                    /\ lastCall.tool = Len(tools)
                    /\ tools[lastCall.tool].cfg = lastCall.cfg
                    /\ tools[lastCall.tool].handler = lastCall.handler
    /\ \A i \in ToolIds :
          /\ ~tools[i].isNil
          /\ ~tools[i].inputSchema.isNil
          /\ ~tools[i].outputSchema.isNil
    /\ \A n \in Names : reqTools.m[n] \in 0..Len(tools)

\* C7 witness: a construction failed on the output side after another succeeded.
C7_Witness ==
    /\ lastCall.op = "NewFunctionTool"
    /\ lastCall.err = "failed to infer output schema"
    /\ lastCall.tool = 0
    /\ Len(tools) = 1

\* C8: every name under which a request holds a tool is non-empty, and a
\* request holds one tool per name.
C8_NamesNonEmptyAndUnique ==
    /\ \A n \in Names : reqTools.m[n] # 0 => n # ""
    /\ \A n \in Names : reqTools.m[n] # 0 => Name(tools[reqTools.m[n]]) = n
    /\ ToolCount = Len(registered)

\* The tool of the last call, and whether its input conversion succeeds.
LastTool == tools[lastCall.tool]
LastInputConverts ==
    ConvertIn(lastCall.args.bag, LastTool.inputSchema, TArgs(LastTool.handler)).err = "none"

AllStages == <<"typecheck", "convertIn", "handler", "convertOut">>

\* C2: a Run call whose argument map fails the input conversion returns the
\* conversion error, and the handler is not called during that call.
C2_NoHandlerOnFailedInput ==
    (lastCall.op = "Run" /\ lastCall.args.kind = "map" /\ ~LastInputConverts)
    => /\ lastCall.err = "conversion"
       /\ lastCall.handlerCalls = 0
       /\ lastCall.trace = <<"typecheck", "convertIn">>

\* C2 witness: a call with a required field missing was refused.
C2_Witness ==
    /\ lastCall.op = "Run"
    /\ lastCall.args.kind = "map"
    /\ lastCall.args.bag["a"] = Absent
    /\ lastCall.args.bag["b"] = IntV(1)
    /\ LastTool.inputSchema.required = Keys
    /\ lastCall.err = "conversion"
    /\ lastCall.handlerCalls = 0

\* C3 as stated: for every argument map that validates against the input
\* schema, Run calls the handler exactly once, between the two conversions,
\* and a result returned without error validates against the output schema.
C3_ValidatedInputCallsHandlerOnce ==
    (lastCall.op = "Run" /\ lastCall.args.kind = "map"
        /\ Validate(LastTool.inputSchema, lastCall.args.bag))
    => /\ lastCall.handlerCalls = 1
       /\ lastCall.trace = AllStages
       /\ lastCall.err = "none" =>
             /\ ~lastCall.result.isNil
             /\ Validate(LastTool.outputSchema, lastCall.result.bag)

\* C3 amended: for every argument map whose input conversion succeeds (it
\* validates against the input schema and maps onto the handler's input
\* type), Run calls the handler exactly once, between the two conversions,
\* and a result returned without error validates against the output schema.
C3_ConvertedInputCallsHandlerOnce ==
    (lastCall.op = "Run" /\ lastCall.args.kind = "map" /\ LastInputConverts)
    => /\ lastCall.handlerCalls = 1
       /\ lastCall.trace = AllStages
       /\ lastCall.err = "none" =>
             /\ ~lastCall.result.isNil
             /\ Validate(LastTool.outputSchema, lastCall.result.bag)

\* C3 witness: swap was called on {a: 1, b: 1} and its result returned.
C3_Witness ==
    /\ lastCall.op = "Run"
    /\ lastCall.args = MapArg([k \in Keys |-> IntV(1)])
    /\ LastTool.handler = "swap"
    /\ lastCall.handlerCalls = 1
    /\ lastCall.err = "none"
    /\ lastCall.result = SomeBag([k \in Keys |-> IntV(1)])

\* C4: a Run call whose argument is not a map[string]any returns the
\* unexpected-args-type error at once: no conversion is attempted, the
\* handler is not called and no result is returned.
C4_NonMapRejectedAtOnce ==
    (lastCall.op = "Run" /\ lastCall.args.kind # "map")
    => /\ lastCall.err = "unexpected args type"
       /\ lastCall.trace = <<"typecheck">>
       /\ lastCall.handlerCalls = 0
       /\ lastCall.result.isNil

\* C4 witness: Run("not-a-map") was refused.
C4_Witness ==
    /\ lastCall.op = "Run"
    /\ lastCall.args = NotAMap
    /\ lastCall.err = "unexpected args type"

Registrars(n) ==
    {t \in Threads : /\ thr[t].op = "ProcessRequest"
                     /\ thr[t].pc = "done"
                     /\ thr[t].err = "none"
                     /\ Name(tools[thr[t].tool]) = n}

\* Entries of the declaration list that declare the name n.
DeclsOf(n) == {k \in 1..Len(reqConfig.Tools) : DeclNames[k] = <<n>>}

\* C9: when the callers let one ProcessRequest into the request run at a
\* time, at most one registration per name returns nil, the name is
\* declared at most once, and the process does not end in a fatal map
\* access. (That the check and the insert are separate steps otherwise
\* is what C9_Witness reaches.)
C9_SerializedRegistersOncePerName ==
    discipline = "single-writer" =>
        /\ \A n \in Names : Cardinality(Registrars(n)) <= 1
        /\ \A n \in Names : Cardinality(DeclsOf(n)) <= 1
        /\ \A n \in Names : Cardinality(DeclsOf(n)) = Cardinality(Registrars(n))
        /\ \A t \in Threads : thr[t].pc # "crashed"

\* C9 witness: without synchronization two goroutines registered two tools
\* of one name, both calls returned nil and the name is declared twice.
C9_Witness ==
    /\ discipline = "none"
    /\ thr["t1"].tool # thr["t2"].tool
    /\ \E n \in Names :
          /\ Registrars(n) = Threads
          /\ Cardinality(DeclsOf(n)) = 2
          /\ Len(reqConfig.Tools) = 2

\* C10: no step of Run, ProcessRequest, Declaration, Name or Description
\* changes a tool; no step of Run changes the request; and a Run call that
\* has returned, whatever ran beside it, returned what Run returns for that
\* tool and those arguments when it runs alone.
C10_ToolsImmutableRunsIndependent ==
    /\ [][tools' = tools]_vars
    /\ [][\A t \in Threads :
            (thr'[t] # thr[t] /\ thr'[t].op = "Run")
            => (reqTools' = reqTools /\ reqConfig' = reqConfig)]_vars
    /\ [](\A t \in Threads :
            (thr[t].op = "Run" /\ thr[t].pc = "done")
            => LET r == Run(tools[thr[t].tool], thr[t].args) IN
               /\ thr[t].result = r.result
               /\ thr[t].err = r.err
               /\ thr[t].trace = r.trace
               /\ thr[t].handlerCalls = r.handlerCalls)

\* C10 witness: two Run calls on one tool with different arguments; one has
\* returned a conversion error without calling the handler while the other,
\* its handler called, has yet to convert its output.
C10_Witness ==
    /\ thr["t1"].op = "Run" /\ thr["t2"].op = "Run"
    /\ thr["t1"].tool = thr["t2"].tool
    /\ thr["t1"].args # thr["t2"].args
    /\ thr["t1"].pc = "done"
    /\ thr["t1"].err = "conversion"
    /\ thr["t1"].handlerCalls = 0
    /\ thr["t2"].pc = "convertOut"
    /\ thr["t2"].handlerCalls = 1

====
